---- MODULE Spec2Model ----
(***************************************************************************)
(* Model of the research-paper front end: the References view              *)
(* (frontend/src/components/References.tsx), the Home page                 *)
(* (frontend/src/pages/Home.tsx) and the PaperDraft editor                 *)
(* (frontend/src/components/SearchBar.tsx, from line 234).                 *)
(*                                                                         *)
(* Strings are sequences of one-character strings, so that concatenation,  *)
(* join, prefix, suffix and substring are the operations of the code and   *)
(* an exact output can be compared character by character.                 *)
(***************************************************************************)
EXTENDS Integers, Sequences, FiniteSets, TLC

VARIABLES
    ref,            \* the Reference record rendered by the bibliography card
    citationStyle,  \* the citationStyle prop
    mounted,        \* whether the card has been rendered
    citation,       \* the text shown by the card: formatCitation(ref, citationStyle)
    firstShown,     \* history: the style and the text of the card's first render
    restyled,       \* history: whether a style button was clicked since
    references,     \* the references prop: the list received from the parent
    searchTerm,     \* useState('')
    sortBy,         \* useState('relevance')
    filterYear,     \* useState('')
    showFilters,    \* useState(false)
    filteredAndSortedReferences,  \* the useMemo value: the list displayed
    yearOptions,    \* the years offered by the year selector, as rendered
    exported,       \* what the last event handed to the browser: a file, a clipboard
                    \* write or a console message
    received,       \* history: the references array as the parent passed it
    expandedSections,  \* useState(new Set(['citations', 'bibliography']))
    hoveredRef,     \* useState(null)
    copiedRef,      \* useState(null): the copied indicator
    writes,         \* the pending promises of navigator.clipboard.writeText
    timers,         \* the pending setTimeout callbacks, in the order they fire
    copies,         \* the number of copies started so far
    copiedBy,       \* history: the copy whose success set copiedRef, 0 when cleared
    currentStep,    \* Home: useState('search')
    researchData,   \* Home: useState(null)
    loading,        \* Home: useState(false)
    error,          \* Home: useState(null)
    fetches,        \* Home: the calls of handleSearch waiting for the backend
    searches,       \* Home: the number of searches started so far
    query,          \* SearchBar: useState('')
    paper,          \* PaperDraft: the paper prop
    onEdit,         \* PaperDraft: whether the onEdit prop is passed
    onSave,         \* PaperDraft: whether the onSave prop is passed
    editingSection, \* PaperDraft: useState(null)
    editContent,    \* PaperDraft: useState('')
    calls,          \* PaperDraft: the calls of onEdit and onSave made by the last event
    typed,          \* PaperDraft history: whether the buffer holds typed text
    clicked         \* PaperDraft history: the control used by the last event

cardVars == <<ref, mounted, citation, firstShown, restyled>>
listVars == <<references, searchTerm, sortBy, filterYear, showFilters,
              filteredAndSortedReferences, yearOptions, exported, received>>
viewVars == <<expandedSections, hoveredRef, copiedRef, writes, timers, copies, copiedBy>>
homeVars == <<currentStep, researchData, loading, error, fetches, searches, query>>
draftVars == <<paper, onEdit, onSave, editingSection, editContent, calls, typed, clicked>>
vars == <<cardVars, citationStyle, listVars, viewVars, homeVars, draftVars>>

----------------------------------------------------------------------------
(* JavaScript values and the string/array primitives the code uses.        *)

\* The values an absent optional field has at run time: a missing key of the
\* backend's JSON reads as undefined, a JSON null as null.  Neither is a
\* sequence of characters.
Undefined == <<"undefined">>
Null == <<"null">>

\* ToBoolean: undefined, null and the empty string are falsy.
Truthy(v) == v # Undefined /\ v # Null /\ v # <<>>

\* ToString, as applied by a template literal `${v}` and by string +.
ToStr(v) ==
    IF v = Undefined THEN <<"u", "n", "d", "e", "f", "i", "n", "e", "d">>
    ELSE IF v = Null THEN <<"n", "u", "l", "l">>
    ELSE v

\* Array.prototype.slice(start, end): negative indices count from the end,
\* both are clamped to [0, length]; indices are 0-based, end is exclusive.
SliceIndex(len, i) == IF i < 0 THEN (IF len + i < 0 THEN 0 ELSE len + i)
                      ELSE (IF i > len THEN len ELSE i)

slice(a, start, end) ==
    LET from == SliceIndex(Len(a), start)
        to   == SliceIndex(Len(a), end)
    IN  IF from >= to THEN <<>> ELSE SubSeq(a, from + 1, to)

\* slice(start) with the end omitted.
sliceFrom(a, start) == slice(a, start, Len(a))

\* Array.prototype.join(sep): an undefined or null element joins as the
\* empty string.
joinElement(e) == IF e = Undefined \/ e = Null THEN <<>> ELSE e

RECURSIVE join(_, _)
join(a, sep) ==
    IF a = <<>> THEN <<>>
    ELSE IF Len(a) = 1 THEN joinElement(a[1])
    ELSE joinElement(a[1]) \o sep \o join(Tail(a), sep)

\* An array used as an operand of string +: Array.prototype.toString,
\* which is join(",").
arrayToString(a) == join(a, <<",">>)

----------------------------------------------------------------------------
(* formatCitation, References.tsx lines 96-165.                            *)

\* apaAuthors with the cut-off tested as "< 7".
apaAuthorsStrictCutoff(authors) ==
    IF Len(authors) = 1 THEN authors[1]
    ELSE IF Len(authors) < 7
         THEN join(slice(authors, 0, -1), <<",", " ">>) \o <<",", " ", "&", " ">>
              \o arrayToString(sliceFrom(authors, -1))
         ELSE join(slice(authors, 0, 6), <<",", " ">>) \o <<",", " ", ".", ".", ".", " ">>
              \o arrayToString(sliceFrom(authors, -1))

\* case 'apa', lines 108-110.
apaAuthors(authors) ==
    IF Len(authors) = 1 THEN authors[1]
    ELSE IF Len(authors) <= 7
         THEN join(slice(authors, 0, -1), <<",", " ">>) \o <<",", " ", "&", " ">>
              \o arrayToString(sliceFrom(authors, -1))
         ELSE join(slice(authors, 0, 6), <<",", " ">>) \o <<",", " ", ".", ".", ".", " ">>
              \o arrayToString(sliceFrom(authors, -1))

\* formatApa with the pages appended before the volume.
formatApaPagesFirst(r) ==
    LET c0 == ToStr(apaAuthors(r.authors)) \o <<" ", "(">> \o ToStr(r.year)
              \o <<")", ".", " ">> \o ToStr(r.title) \o <<".", " ">>
        c1 == IF Truthy(r.journal)
              THEN c0 \o ToStr(r.journal)
                   \o (IF Truthy(r.pages) THEN <<",", " ">> \o ToStr(r.pages) ELSE <<>>)
                   \o (IF Truthy(r.volume) THEN <<",", " ">> \o ToStr(r.volume) ELSE <<>>)
              ELSE c0
    IN  IF Truthy(r.doi)
        THEN c1 \o <<" ", "h", "t", "t", "p", "s", ":", "/", "/", "d", "o", "i", ".",
                     "o", "r", "g", "/">> \o ToStr(r.doi)
        ELSE c1

\* case 'apa', lines 112-119.
formatApa(r) ==
    LET c0 == ToStr(apaAuthors(r.authors)) \o <<" ", "(">> \o ToStr(r.year)
              \o <<")", ".", " ">> \o ToStr(r.title) \o <<".", " ">>
        c1 == IF Truthy(r.journal)
              THEN c0 \o ToStr(r.journal)
                   \o (IF Truthy(r.volume) THEN <<",", " ">> \o ToStr(r.volume) ELSE <<>>)
                   \o (IF Truthy(r.pages) THEN <<",", " ">> \o ToStr(r.pages) ELSE <<>>)
              ELSE c0
    IN  IF Truthy(r.doi)
        THEN c1 \o <<" ", "h", "t", "t", "p", "s", ":", "/", "/", "d", "o", "i", ".",
                     "o", "r", "g", "/">> \o ToStr(r.doi)
        ELSE c1

\* mlaAuthors with the IEEE truncation pasted in: more than 6 authors are
\* cut to the first 3 and "et al.".
mlaAuthorsTruncated(authors) ==
    IF Len(authors) = 1 THEN authors[1]
    ELSE IF Len(authors) <= 6
         THEN join(slice(authors, 0, -1), <<",", " ">>) \o <<",", " ", "a", "n", "d", " ">>
              \o arrayToString(sliceFrom(authors, -1))
         ELSE join(slice(authors, 0, 3), <<",", " ">>) \o <<" ", "e", "t", " ", "a", "l", ".">>

\* case 'mla', lines 122-123.
mlaAuthors(authors) ==
    IF Len(authors) = 1 THEN authors[1]
    ELSE join(slice(authors, 0, -1), <<",", " ">>) \o <<",", " ", "a", "n", "d", " ">>
         \o arrayToString(sliceFrom(authors, -1))

\* case 'mla', lines 125-132.
formatMla(r) ==
    LET c0 == ToStr(mlaAuthors(r.authors)) \o <<".", " ", "\"">> \o ToStr(r.title)
              \o <<".", "\"", " ">>
    IN  IF Truthy(r.journal)
        THEN c0 \o ToStr(r.journal)
             \o (IF Truthy(r.volume)
                 THEN <<",", " ", "v", "o", "l", ".", " ">> \o ToStr(r.volume) ELSE <<>>)
             \o (IF Truthy(r.pages)
                 THEN <<",", " ">> \o ToStr(r.year) \o <<",", " ", "p", "p", ".", " ">>
                      \o ToStr(r.pages)
                 ELSE <<",", " ">> \o ToStr(r.year))
        ELSE c0

\* case 'chicago', lines 135-136.
chicagoAuthors(authors) ==
    IF Len(authors) = 1 THEN authors[1]
    ELSE join(slice(authors, 0, -1), <<",", " ">>) \o <<",", " ", "a", "n", "d", " ">>
         \o arrayToString(sliceFrom(authors, -1))

\* case 'chicago', lines 138-146.
formatChicago(r) ==
    LET c0 == ToStr(chicagoAuthors(r.authors)) \o <<".", " ", "\"">> \o ToStr(r.title)
              \o <<".", "\"", " ">>
        c1 == IF Truthy(r.journal)
              THEN c0 \o ToStr(r.journal)
                   \o (IF Truthy(r.volume) THEN <<" ">> \o ToStr(r.volume) ELSE <<>>)
                   \o (IF Truthy(r.pages)
                       THEN <<",", " ", "n", "o", ".", " ">> \o ToStr(r.issue)
                            \o <<" ", "(">> \o ToStr(r.year) \o <<")", ":", " ">>
                            \o ToStr(r.pages)
                       ELSE <<" ", "(">> \o ToStr(r.year) \o <<")">>)
              ELSE c0
    IN  IF Truthy(r.doi)
        THEN c1 \o <<" ", "h", "t", "t", "p", "s", ":", "/", "/", "d", "o", "i", ".",
                     "o", "r", "g", "/">> \o ToStr(r.doi)
        ELSE c1

\* ieeeAuthors with the APA cut-off of 7 in place of 6.
ieeeAuthorsApaCutoff(authors) ==
    IF Len(authors) = 1 THEN authors[1]
    ELSE IF Len(authors) <= 7 THEN join(authors, <<",", " ">>)
    ELSE join(slice(authors, 0, 3), <<",", " ">>) \o <<" ", "e", "t", " ", "a", "l", ".">>

\* case 'ieee', lines 149-151.
ieeeAuthors(authors) ==
    IF Len(authors) = 1 THEN authors[1]
    ELSE IF Len(authors) <= 6 THEN join(authors, <<",", " ">>)
    ELSE join(slice(authors, 0, 3), <<",", " ">>) \o <<" ", "e", "t", " ", "a", "l", ".">>

\* formatIeee with the year appended before the pages.
formatIeeeYearFirst(r) ==
    LET c0 == ToStr(ieeeAuthors(r.authors)) \o <<",", " ", "\"">> \o ToStr(r.title)
              \o <<",", "\"", " ">>
    IN  IF Truthy(r.journal)
        THEN c0 \o ToStr(r.journal)
             \o (IF Truthy(r.volume)
                 THEN <<",", " ", "v", "o", "l", ".", " ">> \o ToStr(r.volume) ELSE <<>>)
             \o <<",", " ">> \o ToStr(r.year)
             \o (IF Truthy(r.pages)
                 THEN <<",", " ", "p", "p", ".", " ">> \o ToStr(r.pages) ELSE <<>>)
        ELSE c0

\* case 'ieee', lines 153-160.
formatIeee(r) ==
    LET c0 == ToStr(ieeeAuthors(r.authors)) \o <<",", " ", "\"">> \o ToStr(r.title)
              \o <<",", "\"", " ">>
    IN  IF Truthy(r.journal)
        THEN c0 \o ToStr(r.journal)
             \o (IF Truthy(r.volume)
                 THEN <<",", " ", "v", "o", "l", ".", " ">> \o ToStr(r.volume) ELSE <<>>)
             \o (IF Truthy(r.pages)
                 THEN <<",", " ", "p", "p", ".", " ">> \o ToStr(r.pages) ELSE <<>>)
             \o <<",", " ">> \o ToStr(r.year)
        ELSE c0

\* The default falling through to the APA format.
formatDefaultAsApa(r) == formatApa(r)

\* default, lines 162-163.
formatDefault(r) ==
    join(r.authors, <<",", " ">>) \o <<" ", "(">> \o ToStr(r.year) \o <<")", ".", " ">>
    \o ToStr(r.title) \o <<".", " ">> \o ToStr(r.journal)

\* formatCitation writing into a buffer shared between calls: each call
\* appends its text to what the card already shows.
formatCitationSharedBuffer(r, style) ==
    LET text == CASE style = "apa"     -> formatApa(r)
                  [] style = "mla"     -> formatMla(r)
                  [] style = "chicago" -> formatChicago(r)
                  [] style = "ieee"    -> formatIeee(r)
                  [] OTHER             -> formatDefault(r)
    IN  IF mounted THEN citation \o text ELSE text

\* The switch on style, lines 106-164.
formatCitation(r, style) ==
    CASE style = "apa"     -> formatApa(r)
      [] style = "mla"     -> formatMla(r)
      [] style = "chicago" -> formatChicago(r)
      [] style = "ieee"    -> formatIeee(r)
      [] OTHER             -> formatDefault(r)

----------------------------------------------------------------------------
(* The references and styles the view is given.                            *)

\* The largest number of authors of a reference.
MaxAuthors == 8

Alphabet == <<"A", "B", "C", "D", "E", "F", "G", "H", "K", "L", "M", "N">>

\* Distinct author names: "Ao", "Bo", "Co", ...
AuthorName(i) == <<Alphabet[i], "o">>

AuthorsUpTo(n) == [i \in 1..n |-> AuthorName(i)]

Reversed(a) == [i \in 1..Len(a) |-> a[Len(a) + 1 - i]]

SmithLee == << <<"A", " ", "S", "m", "i", "t", "h">>, <<"B", " ", "L", "e", "e">> >>

\* authors: string[], in citation order; the list may be empty.
AuthorLists ==
    {AuthorsUpTo(n) : n \in 0..MaxAuthors}
    \cup {Reversed(AuthorsUpTo(n)) : n \in 2..MaxAuthors}
    \cup {SmithLee}

Titles == {<<"X">>}
Journals == {<<>>, <<"J">>}
Years == {<<"2", "0", "2", "1">>, <<"1", "9", "9", "9">>}

\* The optional fields: a string, or absent (undefined or null).
Absent == {Undefined, Null}
Volumes == Absent \cup {<<"5">>}
Issues == Absent \cup {<<"2">>}
PageRanges == Absent \cup {<<"1", "-", "1", "0">>}
Dois == Absent \cup {<<"1", "0", ".", "1", "/", "x">>}

\* interface Reference, the fields formatCitation reads.
References ==
    [authors : AuthorLists, title : Titles, journal : Journals, year : Years,
     volume : Volumes, issue : Issues, pages : PageRanges, doi : Dois]

\* The citationStyle union type.
Styles == {"apa", "mla", "chicago", "ieee"}

\* What a caller can pass as citationStyle at run time: the type is erased, so
\* a value outside the union reaches the switch's default.
StyleProps == Styles \cup {"harvard"}

----------------------------------------------------------------------------
(* The bibliography card: it shows formatCitation(ref, citationStyle) and  *)
(* is rendered again when the style prop changes.                          *)

\* The view state of References after construction, lines 52-54; nothing
\* copied yet.
ViewInitial ==
    /\ expandedSections = {"citations", "bibliography"}
    /\ hoveredRef = Null
    /\ copiedRef = Null
    /\ writes = {}
    /\ timers = <<>>
    /\ copies = 0
    /\ copiedBy = 0

\* A value of researchData: null, or an object of which the model keeps
\* whether paper_draft and analytics are there.
NullData == [null |-> TRUE, paper_draft |-> FALSE, analytics |-> FALSE]

\* The state of Home after construction, Home.tsx lines 30-33, with the
\* search bar it renders (SearchBar.tsx line 20).
HomeInitial ==
    /\ currentStep = "search"
    /\ researchData = NullData
    /\ loading = FALSE
    /\ error = Null
    /\ fetches = {}
    /\ searches = 0
    /\ query = <<>>

\* PaperDraft before it is rendered: SearchBar.tsx lines 265-266.
DraftInitial ==
    /\ paper = <<>>
    /\ onEdit = FALSE
    /\ onSave = FALSE
    /\ editingSection = Null
    /\ editContent = <<>>
    /\ calls = <<>>
    /\ typed = FALSE
    /\ clicked = "none"

InitFormat ==
    /\ ref \in References
    /\ citationStyle \in StyleProps
    /\ mounted = FALSE
    /\ citation = <<>>
    /\ firstShown = <<>>
    /\ restyled = FALSE
    /\ references = <<>>
    /\ searchTerm = <<>>
    /\ sortBy = "relevance"
    /\ filterYear = <<>>
    /\ showFilters = FALSE
    /\ filteredAndSortedReferences = <<>>
    /\ yearOptions = <<>>
    /\ exported = <<>>
    /\ received = <<>>
    /\ ViewInitial
    /\ HomeInitial
    /\ DraftInitial

\* The first render of the card (line 591).
Mount ==
    /\ ~mounted
    /\ mounted' = TRUE
    /\ citation' = formatCitation(ref, citationStyle)
    /\ firstShown' = [style |-> citationStyle, text |-> citation']
    /\ UNCHANGED <<ref, citationStyle, restyled, listVars, viewVars, homeVars, draftVars>>

\* A style button is clicked (line 323): the parent passes the new style and
\* the card is rendered with it.
StyleChange(s) ==
    /\ mounted
    /\ citationStyle' = s
    /\ citation' = formatCitation(ref, s)
    /\ restyled' = TRUE
    /\ UNCHANGED <<ref, mounted, firstShown, listVars, viewVars, homeVars, draftVars>>

NextFormat == Mount \/ \E s \in Styles : StyleChange(s)

SpecFormat == InitFormat /\ [][NextFormat]_vars

----------------------------------------------------------------------------
(* String and number primitives of the query pipeline.                     *)

UpperLetters ==
    <<"A", "B", "C", "D", "E", "F", "G", "H", "I", "J", "K", "L", "M",
      "N", "O", "P", "Q", "R", "S", "T", "U", "V", "W", "X", "Y", "Z">>
LowerLetters ==
    <<"a", "b", "c", "d", "e", "f", "g", "h", "i", "j", "k", "l", "m",
      "n", "o", "p", "q", "r", "s", "t", "u", "v", "w", "x", "y", "z">>
Digits == <<"0", "1", "2", "3", "4", "5", "6", "7", "8", "9">>

IndexIn(table, c) == CHOOSE i \in 1..Len(table) : table[i] = c
IsIn(table, c) == \E i \in 1..Len(table) : table[i] = c

\* String.prototype.toLowerCase: A-Z map to a-z, every other character of
\* the texts used here is unchanged.
lowerChar(c) == IF IsIn(UpperLetters, c) THEN LowerLetters[IndexIn(UpperLetters, c)] ELSE c
toLowerCase(str) == [i \in 1..Len(str) |-> lowerChar(str[i])]

\* String.prototype.includes: the empty string is included in every string.
includes(str, part) ==
    \E i \in 1..(Len(str) - Len(part) + 1) : SubSeq(str, i, i + Len(part) - 1) = part

\* A JavaScript number: an integer value or NaN.
Num(n) == [nan |-> FALSE, val |-> n]
NaN == [nan |-> TRUE, val |-> 0]
isNaN(x) == x.nan
minus(x, y) == IF x.nan \/ y.nan THEN NaN ELSE Num(x.val - y.val)

\* parseInt(str), radix 10: leading white space is skipped, then an optional
\* sign, then the longest run of digits; NaN when there is no digit.
RECURSIVE skipWhiteSpace(_)
skipWhiteSpace(str) ==
    IF str # <<>> /\ Head(str) = " " THEN skipWhiteSpace(Tail(str)) ELSE str

RECURSIVE digitsValue(_, _)
digitsValue(str, acc) ==
    IF str # <<>> /\ IsIn(Digits, Head(str))
    THEN digitsValue(Tail(str), 10 * acc + (IndexIn(Digits, Head(str)) - 1))
    ELSE acc

parseInt(str) ==
    LET s1   == skipWhiteSpace(ToStr(str))
        neg  == s1 # <<>> /\ Head(s1) = "-"
        s2   == IF s1 # <<>> /\ Head(s1) \in {"-", "+"} THEN Tail(s1) ELSE s1
    IN  IF s2 = <<>> \/ ~IsIn(Digits, Head(s2)) THEN NaN
        ELSE IF neg THEN Num(0 - digitsValue(s2, 0)) ELSE Num(digitsValue(s2, 0))

\* Number.prototype.toString for the integers of a year range.
RECURSIVE naturalToString(_)
naturalToString(n) ==
    IF n < 10 THEN <<Digits[n + 1]>>
    ELSE naturalToString(n \div 10) \o <<Digits[(n % 10) + 1]>>

numberToString(n) == IF n < 0 THEN <<"-">> \o naturalToString(0 - n) ELSE naturalToString(n)

\* String.prototype.localeCompare with the default collation, for texts of
\* letters, digits and spaces: first by the letters without regard to case
\* (space before digits before letters), then, for texts equal that way, by
\* case at the first difference, lower case first.  The result is -1, 0 or 1.
collationRank(c) ==
    IF c = " " THEN 0
    ELSE IF IsIn(Digits, c) THEN IndexIn(Digits, c)
    ELSE IF IsIn(LowerLetters, lowerChar(c)) THEN 10 + IndexIn(LowerLetters, lowerChar(c))
    ELSE 40

RECURSIVE primaryCompare(_, _)
primaryCompare(a, b) ==
    IF a = <<>> /\ b = <<>> THEN 0
    ELSE IF a = <<>> THEN -1
    ELSE IF b = <<>> THEN 1
    ELSE IF collationRank(Head(a)) < collationRank(Head(b)) THEN -1
    ELSE IF collationRank(Head(a)) > collationRank(Head(b)) THEN 1
    ELSE primaryCompare(Tail(a), Tail(b))

RECURSIVE caseCompare(_, _)
caseCompare(a, b) ==
    IF a = <<>> \/ b = <<>> THEN 0
    ELSE IF Head(a) = Head(b) THEN caseCompare(Tail(a), Tail(b))
    ELSE IF IsIn(LowerLetters, Head(a)) THEN -1
    ELSE 1

localeCompare(a, b) ==
    IF primaryCompare(a, b) # 0 THEN primaryCompare(a, b) ELSE caseCompare(a, b)

----------------------------------------------------------------------------
(* The query pipeline, References.tsx lines 56-84, and getYearRange,       *)
(* lines 204-208.                                                          *)

\* matchesSearch without the journal.
matchesSearchNoJournal(r, term) ==
    \/ includes(toLowerCase(r.title), toLowerCase(term))
    \/ \E i \in 1..Len(r.authors) : includes(toLowerCase(r.authors[i]), toLowerCase(term))

\* matchesSearch with the search term used as typed.
matchesSearchTermAsTyped(r, term) ==
    \/ includes(toLowerCase(r.title), term)
    \/ \E i \in 1..Len(r.authors) : includes(toLowerCase(r.authors[i]), term)
    \/ includes(toLowerCase(r.journal), term)

\* matchesSearch, lines 58-60.
matchesSearch(r, term) ==
    \/ includes(toLowerCase(r.title), toLowerCase(term))
    \/ \E i \in 1..Len(r.authors) : includes(toLowerCase(r.authors[i]), toLowerCase(term))
    \/ includes(toLowerCase(r.journal), toLowerCase(term))

\* matchesYear without the "no filter" case.
matchesYearStrict(r, year) == r.year = year

\* matchesYear, line 62.
matchesYear(r, year) == ~Truthy(year) \/ r.year = year

\* references.filter(...), lines 57-65: a new array, in input order.
filterReferences(refs, term, year) ==
    LET keep(r) == matchesSearch(r, term) /\ matchesYear(r, year)
    IN  SelectSeq(refs, keep)

\* The comparator with the operands of each difference exchanged.
compareReferencesAscending(a, b, key) ==
    CASE key = "relevance"    -> minus(Num(a.relevance_score), Num(b.relevance_score))
      [] key = "year"         -> minus(parseInt(a.year), parseInt(b.year))
      [] key = "citations"    -> minus(Num(a.citations_count), Num(b.citations_count))
      [] key = "alphabetical" -> Num(localeCompare(b.title, a.title))
      [] OTHER                -> Num(0)

\* The comparator passed to sort, lines 68-81.  relevance_score is held in
\* hundredths, which keeps the sign of every difference.
compareReferences(a, b, key) ==
    CASE key = "relevance"    -> minus(Num(b.relevance_score), Num(a.relevance_score))
      [] key = "year"         -> minus(parseInt(b.year), parseInt(a.year))
      [] key = "citations"    -> minus(Num(b.citations_count), Num(a.citations_count))
      [] key = "alphabetical" -> Num(localeCompare(a.title, b.title))
      [] OTHER                -> Num(0)

\* Array.prototype.sort reads the comparator's result v as +0 when v is NaN.
sortOrder(a, b, key) ==
    LET v == compareReferences(a, b, key) IN IF isNaN(v) THEN 0 ELSE v.val

\* ECMAScript's "consistent comparator" for the elements of a list.
consistentComparator(list, key) ==
    LET S == {list[i] : i \in 1..Len(list)}
        lt(a, b) == sortOrder(a, b, key) < 0
        eq(a, b) == sortOrder(a, b, key) = 0
        gt(a, b) == sortOrder(a, b, key) > 0
    IN  \A a \in S : \A b \in S : \A c \in S :
            /\ eq(a, a)
            /\ eq(a, b) => eq(b, a)
            /\ (eq(a, b) /\ eq(b, c)) => eq(a, c)
            /\ (lt(a, b) /\ lt(b, c)) => lt(a, c)
            /\ (gt(a, b) /\ gt(b, c)) => gt(a, c)

\* A stable sort: each element is inserted after the elements that do not
\* sort after it.
RECURSIVE insertInOrder(_, _, _)
insertInOrder(sorted, x, key) ==
    IF sorted = <<>> THEN <<x>>
    ELSE IF sortOrder(sorted[Len(sorted)], x, key) > 0
         THEN insertInOrder(SubSeq(sorted, 1, Len(sorted) - 1), x, key)
              \o <<sorted[Len(sorted)]>>
         ELSE sorted \o <<x>>

RECURSIVE stableSort(_, _)
stableSort(list, key) ==
    IF list = <<>> THEN <<>>
    ELSE insertInOrder(stableSort(SubSeq(list, 1, Len(list) - 1), key), list[Len(list)], key)

arrangements(list) ==
    {[i \in 1..Len(list) |-> list[p[i]]] :
        p \in {q \in [1..Len(list) -> 1..Len(list)] :
                  \A i \in 1..Len(list) : \A j \in 1..Len(list) : i # j => q[i] # q[j]}}

\* filtered.sort(comparator), lines 68-81: with a consistent comparator the
\* stable sorted order; otherwise the order is implementation-defined, any
\* arrangement of the elements.
sortOutcomes(list, key) ==
    IF consistentComparator(list, key) THEN {stableSort(list, key)}
    ELSE arrangements(list)

\* The memo sorting the references prop itself: references.sort(...) followed
\* by the filter.
recomputeInPlace(refs, term, key, year) ==
    {[input |-> sorted, output |-> filterReferences(sorted, term, year)] :
        sorted \in sortOutcomes(refs, key)}

\* The body of the useMemo, lines 56-84: what becomes of the input array and
\* the arrays it can return.  filter copies, so the sort rearranges the copy.
recompute(refs, term, key, year) ==
    {[input |-> refs, output |-> out] :
        out \in sortOutcomes(filterReferences(refs, term, year), key)}

\* getYearRange with the length max - min.
getYearRangeShort(refs) ==
    LET parsed == [i \in 1..Len(refs) |-> parseInt(refs[i].year)]
        valid(y) == ~isNaN(y)
        years == SelectSeq(parsed, valid)
        Y == {years[i].val : i \in 1..Len(years)}
        min == CHOOSE y \in Y : \A z \in Y : y <= z
        max == CHOOSE y \in Y : \A z \in Y : y >= z
    IN  IF Len(years) = 0 THEN <<>>
        ELSE [i \in 1..(max - min) |-> min + (i - 1)]

\* getYearRange, lines 204-208.
getYearRange(refs) ==
    LET parsed == [i \in 1..Len(refs) |-> parseInt(refs[i].year)]
        valid(y) == ~isNaN(y)
        years == SelectSeq(parsed, valid)
        Y == {years[i].val : i \in 1..Len(years)}
        min == CHOOSE y \in Y : \A z \in Y : y <= z
        max == CHOOSE y \in Y : \A z \in Y : y >= z
    IN  IF Len(years) = 0 THEN <<>>
        ELSE [i \in 1..(max - min + 1) |-> min + (i - 1)]

\* Array.prototype.reverse of the fresh array getYearRange returns, and the
\* option values rendered from it, lines 400-402.
renderYearOptions(refs, shown) ==
    IF shown
    THEN LET range == getYearRange(refs)
         IN  [i \in 1..Len(range) |-> numberToString(range[Len(range) + 1 - i])]
    ELSE <<>>

----------------------------------------------------------------------------
(* The reference lists the list view is given.                             *)

\* The largest number of references in the list.
MaxRefs == 3

NoOptionalFields == [volume |-> Undefined, issue |-> Undefined, pages |-> Undefined,
                     doi |-> Undefined]

\* The number of copies started in a run.
MaxCopies == 2

\* Four references: titles equal and equal up to case, ties in
\* relevance_score, in citations_count and in year, a year that does not
\* parse, an empty journal and an empty author list.
Bibliography ==
    {[id |-> <<"1">>, title |-> <<"M", "l">>, authors |-> <<AuthorName(1), AuthorName(2)>>,
      journal |-> <<"J">>, year |-> <<"2", "0", "2", "1">>,
      relevance_score |-> 90, citations_count |-> 10,
      volume |-> <<"5">>, issue |-> Undefined, pages |-> <<"1", "-", "1", "0">>,
      doi |-> Undefined],
     [id |-> <<"2">>, title |-> <<"m", "l">>, authors |-> <<AuthorName(3)>>,
      journal |-> <<>>, year |-> <<"2", "0", "1", "9">>,
      relevance_score |-> 90, citations_count |-> 5] @@ NoOptionalFields,
     [id |-> <<"3">>, title |-> <<"A", "b">>, authors |-> <<AuthorName(1)>>,
      journal |-> <<"J", "m">>, year |-> <<"n", ".", "d", ".">>,
      relevance_score |-> 50, citations_count |-> 10] @@ NoOptionalFields,
     [id |-> <<"4">>, title |-> <<"A", "b">>, authors |-> <<>>,
      journal |-> <<"K">>, year |-> <<"2", "0", "2", "1">>,
      relevance_score |-> 50, citations_count |-> 0] @@ NoOptionalFields}

\* references: Reference[], without repeated entries.
ReferenceLists ==
    {list \in UNION {[1..n -> Bibliography] : n \in 0..MaxRefs} :
        \A i \in 1..Len(list) : \A j \in 1..Len(list) : i # j => list[i] # list[j]}

\* The arrays a parent passes after the first: none or one reference, or
\* the current references in the opposite order.
Deliveries(current) ==
    {list \in ReferenceLists : Len(list) <= 1} \cup {Reversed(current)}

\* What can be typed into the search box.
SearchTerms == {<<>>, <<"m", "l">>, <<"M", "L">>, <<"a", "o">>, <<"k">>, <<"z">>}

\* The options of the sort selector, lines 364-367.
SortKeys == {"relevance", "year", "citations", "alphabetical"}

----------------------------------------------------------------------------
(* The list view: query state, the memoised list and the year selector.    *)

InitQuery ==
    /\ references \in ReferenceLists
    /\ searchTerm = <<>>
    /\ sortBy = "relevance"
    /\ filterYear = <<>>
    /\ showFilters = FALSE
    /\ \E res \in recompute(references, <<>>, "relevance", <<>>) :
           filteredAndSortedReferences = res.output
    /\ yearOptions = <<>>
    /\ exported = <<>>
    /\ received = references
    /\ citationStyle = "apa"
    /\ ref = <<>>
    /\ mounted = FALSE
    /\ citation = <<>>
    /\ firstShown = <<>>
    /\ restyled = FALSE
    /\ ViewInitial
    /\ HomeInitial
    /\ DraftInitial

\* A render in which the memo is not computed again.
RerenderKeepingMemo(refs, term, key, year) ==
    /\ references' = refs
    /\ searchTerm' = term
    /\ sortBy' = key
    /\ filterYear' = year
    /\ yearOptions' = renderYearOptions(references', showFilters)
    /\ exported' = <<>>
    /\ UNCHANGED <<showFilters, filteredAndSortedReferences>>

\* A render after one of the four inputs of the useMemo changed: the memo is
\* computed again and the year selector is rendered from the references.
Rerender(refs, term, key, year) ==
    /\ \E res \in recompute(refs, term, key, year) :
           /\ references' = res.input
           /\ filteredAndSortedReferences' = res.output
    /\ searchTerm' = term
    /\ sortBy' = key
    /\ filterYear' = year
    /\ yearOptions' = renderYearOptions(references', showFilters)
    /\ exported' = <<>>
    /\ UNCHANGED showFilters

\* onChange of the search box, line 351.
SetSearchTerm(term) ==
    /\ term # searchTerm
    /\ Rerender(references, term, sortBy, filterYear)
    /\ UNCHANGED received
    /\ UNCHANGED <<cardVars, citationStyle, viewVars, homeVars, draftVars>>

\* onChange of the sort selector, line 359.
SetSortBy(key) ==
    /\ key # sortBy
    /\ Rerender(references, searchTerm, key, filterYear)
    /\ UNCHANGED received
    /\ UNCHANGED <<cardVars, citationStyle, viewVars, homeVars, draftVars>>

\* onChange of the year selector, line 396: "All years" or one of the years
\* rendered.
SetFilterYear(year) ==
    /\ showFilters
    /\ year = <<>> \/ \E i \in 1..Len(yearOptions) : yearOptions[i] = year
    /\ year # filterYear
    /\ Rerender(references, searchTerm, sortBy, year)
    /\ UNCHANGED received
    /\ UNCHANGED <<cardVars, citationStyle, viewVars, homeVars, draftVars>>

\* The Filters button, line 371: the memo's inputs are unchanged, so the
\* list is kept; the year selector appears or disappears.
ToggleFilters ==
    /\ showFilters' = ~showFilters
    /\ yearOptions' = renderYearOptions(references, showFilters')
    /\ exported' = <<>>
    /\ UNCHANGED <<references, searchTerm, sortBy, filterYear, filteredAndSortedReferences,
                   received, cardVars, citationStyle, viewVars, homeVars, draftVars>>

\* The parent passes another references array (Home.tsx line 327).
ReferencesChange(list) ==
    /\ list # references
    /\ Rerender(list, searchTerm, sortBy, filterYear)
    /\ received' = list
    /\ UNCHANGED <<cardVars, citationStyle, viewVars, homeVars, draftVars>>

NextQuery ==
    \/ \E term \in SearchTerms : SetSearchTerm(term)
    \/ \E key \in SortKeys : SetSortBy(key)
    \/ \E i \in 1..Len(yearOptions) : SetFilterYear(yearOptions[i])
    \/ SetFilterYear(<<>>)
    \/ ToggleFilters
    \/ \E list \in Deliveries(references) : ReferencesChange(list)

SpecQuery == InitQuery /\ [][NextQuery]_vars

\* The text of a style name inside a template literal.
styleText(style) ==
    CASE style = "apa"     -> <<"a", "p", "a">>
      [] style = "mla"     -> <<"m", "l", "a">>
      [] style = "chicago" -> <<"c", "h", "i", "c", "a", "g", "o">>
      [] style = "ieee"    -> <<"i", "e", "e", "e">>
      [] OTHER             -> <<"h", "a", "r", "v", "a", "r", "d">>

\* The citations joined by a single line break.
citationsTextOnePerLine(list, style) ==
    join([i \in 1..Len(list) |-> formatCitation(list[i], style)], <<"\n">>)

\* filteredAndSortedReferences.map(ref => formatCitation(ref, citationStyle))
\* .join('\n\n'), lines 178-179 and 191-192: map returns a new array.
citationsText(list, style) ==
    join([i \in 1..Len(list) |-> formatCitation(list[i], style)], <<"\n", "\n">>)

\* downloadCitations, lines 190-202: a text file is handed to the browser;
\* the anchor and the object URL are released again.
DownloadCitations ==
    /\ exported' = [kind |-> "file",
                    name |-> <<"r", "e", "f", "e", "r", "e", "n", "c", "e", "s", "_">>
                             \o styleText(citationStyle) \o <<".", "t", "x", "t">>,
                    text |-> citationsText(filteredAndSortedReferences, citationStyle)]
    /\ UNCHANGED <<references, searchTerm, sortBy, filterYear, showFilters,
                   filteredAndSortedReferences, yearOptions, received, cardVars,
                   citationStyle, viewVars, homeVars, draftVars>>

\* The id the copied indicator takes for copy-all, line 183.
AllRefs == <<"a", "l", "l">>

FailedToCopyText ==
    <<"F", "a", "i", "l", "e", "d", " ", "t", "o", " ", "c", "o", "p", "y", " ",
      "t", "e", "x", "t", ":", " ">>

FailedToCopyCitations ==
    <<"F", "a", "i", "l", "e", "d", " ", "t", "o", " ", "c", "o", "p", "y", " ",
      "c", "i", "t", "a", "t", "i", "o", "n", "s", ":", " ">>

\* navigator.clipboard.writeText(text) called by the handler by (lines 169,
\* 182): the text goes to the clipboard and the handler waits for the
\* promise; refId is what the handler shows when the write succeeds.
writeText(text, refId, by) ==
    /\ copies < MaxCopies
    /\ copies' = copies + 1
    /\ writes' = writes \cup {[n |-> copies', target |-> refId, by |-> by]}
    /\ exported' = [kind |-> "clipboard", name |-> <<>>, text |-> text]
    /\ UNCHANGED <<references, searchTerm, sortBy, filterYear, showFilters,
                   filteredAndSortedReferences, yearOptions, received>>
    /\ UNCHANGED <<expandedSections, hoveredRef, copiedRef, timers, copiedBy>>
    /\ UNCHANGED <<cardVars, citationStyle, homeVars, draftVars>>

\* copyAllCitations, lines 177-182, up to the await.
CopyAllCitations ==
    writeText(citationsText(filteredAndSortedReferences, citationStyle), AllRefs,
              "copyAllCitations")

\* The copy button of a bibliography card, lines 597-600: copyToClipboard
\* with the card's citation and the reference's id, up to the await.
CopyCitation(i) ==
    /\ "bibliography" \in expandedSections
    /\ i \in 1..Len(filteredAndSortedReferences)
    /\ writeText(formatCitation(filteredAndSortedReferences[i], citationStyle),
                 filteredAndSortedReferences[i].id, "copyToClipboard")

\* What a settled write leaves alone.
settledFrame ==
    /\ UNCHANGED <<references, searchTerm, sortBy, filterYear, showFilters,
                   filteredAndSortedReferences, yearOptions, received>>
    /\ UNCHANGED <<expandedSections, hoveredRef, copies>>
    /\ UNCHANGED <<cardVars, citationStyle, homeVars, draftVars>>

\* The promise of a write is fulfilled: lines 170-171 and 183-184 set the
\* indicator and schedule its clearing after 2000 ms.
ClipboardResolves(w) ==
    /\ w \in writes
    /\ writes' = writes \ {w}
    /\ copiedRef' = w.target
    /\ copiedBy' = w.n
    /\ timers' = Append(timers, w.n)
    /\ exported' = <<>>
    /\ settledFrame

\* A rejected write handled like a fulfilled one.
ClipboardRejectsAsResolved(w) ==
    /\ w \in writes
    /\ writes' = writes \ {w}
    /\ copiedRef' = w.target
    /\ copiedBy' = w.n
    /\ timers' = Append(timers, w.n)
    /\ exported' = [kind |-> "console", name |-> <<>>, text |-> FailedToCopyText]
    /\ settledFrame

\* The promise of a write is rejected: the catch of lines 172-174 and
\* 185-187 logs the error.
ClipboardRejects(w) ==
    /\ w \in writes
    /\ writes' = writes \ {w}
    /\ exported' = [kind |-> "console", name |-> <<>>,
                    text |-> IF w.by = "copyAllCitations" THEN FailedToCopyCitations
                             ELSE FailedToCopyText]
    /\ UNCHANGED <<copiedRef, copiedBy, timers>>
    /\ settledFrame

\* The oldest timer fires, lines 171 and 184: setCopiedRef(null).  All
\* timers have the same delay, so they fire in the order they were set.
TimerFires ==
    /\ timers # <<>>
    /\ timers' = Tail(timers)
    /\ copiedRef' = Null
    /\ copiedBy' = 0
    /\ exported' = <<>>
    /\ UNCHANGED <<references, searchTerm, sortBy, filterYear, showFilters,
                   filteredAndSortedReferences, yearOptions, received>>
    /\ UNCHANGED <<expandedSections, hoveredRef, writes, copies>>
    /\ UNCHANGED <<cardVars, citationStyle, homeVars, draftVars>>

\* toggleSection, lines 86-94.
toggleSection(section) ==
    /\ expandedSections' = IF section \in expandedSections
                           THEN expandedSections \ {section}
                           ELSE expandedSections \cup {section}
    /\ exported' = <<>>
    /\ UNCHANGED <<references, searchTerm, sortBy, filterYear, showFilters,
                   filteredAndSortedReferences, yearOptions, received>>
    /\ UNCHANGED <<hoveredRef, copiedRef, writes, timers, copies, copiedBy>>
    /\ UNCHANGED <<cardVars, citationStyle, homeVars, draftVars>>

\* setHoveredRef, lines 540-541, with the id of the card entered or null.
setHoveredRef(id) ==
    /\ id # hoveredRef
    /\ hoveredRef' = id
    /\ exported' = <<>>
    /\ UNCHANGED <<references, searchTerm, sortBy, filterYear, showFilters,
                   filteredAndSortedReferences, yearOptions, received>>
    /\ UNCHANGED <<expandedSections, copiedRef, writes, timers, copies, copiedBy>>
    /\ UNCHANGED <<cardVars, citationStyle, homeVars, draftVars>>

\* onMouseEnter of the i-th card, line 540.
MouseEnter(i) ==
    /\ "bibliography" \in expandedSections
    /\ i \in 1..Len(filteredAndSortedReferences)
    /\ setHoveredRef(filteredAndSortedReferences[i].id)

\* onMouseLeave of the card under the pointer, line 541.
MouseLeave ==
    /\ "bibliography" \in expandedSections
    /\ \E i \in 1..Len(filteredAndSortedReferences) :
           filteredAndSortedReferences[i].id = hoveredRef
    /\ setHoveredRef(Null)

\* The reference of the pool with this id.
ById(id) == CHOOSE r \in Bibliography : r.id = id

\* The list the view is first rendered with.
ViewLists == {<< ById(<<"2">>), ById(<<"3">>), ById(<<"1">>) >>}

\* The array the parent passes afterwards.
ViewDeliveries(current) == {Reversed(current)}

ViewTerms == {<<>>, <<"m", "l">>}
ViewKeys == {"relevance", "alphabetical"}
ViewSections == {"bibliography"}

\* The References view after its first render with one of the lists.
ViewStart ==
    /\ references \in ViewLists
    /\ searchTerm = <<>>
    /\ sortBy = "relevance"
    /\ filterYear = <<>>
    /\ showFilters = FALSE
    /\ \E res \in recompute(references, <<>>, "relevance", <<>>) :
           filteredAndSortedReferences = res.output
    /\ yearOptions = <<>>
    /\ exported = <<>>
    /\ received = references
    /\ ref = <<>>
    /\ mounted = FALSE
    /\ citation = <<>>
    /\ firstShown = <<>>
    /\ restyled = FALSE
    /\ ViewInitial
    /\ HomeInitial
    /\ DraftInitial

\* The view as Home renders it, Home.tsx line 328.
InitView == ViewStart /\ citationStyle = "apa"

NextView ==
    \/ \E term \in ViewTerms : SetSearchTerm(term)
    \/ \E key \in ViewKeys : SetSortBy(key)
    \/ yearOptions # <<>> /\ SetFilterYear(yearOptions[1])
    \/ SetFilterYear(<<>>)
    \/ ToggleFilters
    \/ \E list \in ViewDeliveries(references) : ReferencesChange(list)
    \/ \E section \in ViewSections : toggleSection(section)
    \/ MouseEnter(1)
    \/ MouseLeave
    \/ CopyAllCitations
    \/ DownloadCitations
    \/ \E w \in writes : ClipboardResolves(w)
    \/ \E w \in writes : ClipboardRejects(w)
    \/ TimerFires

SpecView == InitView /\ [][NextView]_vars

\* The copy buttons: a card's and copy-all, while the list is sorted again
\* and the bibliography is collapsed and expanded.
InitCopy == ViewStart /\ citationStyle \in Styles

NextCopy ==
    \/ \E term \in ViewTerms : SetSearchTerm(term)
    \/ \E key \in ViewKeys : SetSortBy(key)
    \/ \E section \in ViewSections : toggleSection(section)
    \/ CopyCitation(1)
    \/ CopyAllCitations
    \/ DownloadCitations
    \/ \E w \in writes : ClipboardResolves(w)
    \/ \E w \in writes : ClipboardRejects(w)
    \/ TimerFires

SpecCopy == InitCopy /\ [][NextCopy]_vars

----------------------------------------------------------------------------
(* The Home page, Home.tsx: the step flow and handleSearch.                *)

\* The number of searches started in a run.
MaxSearches == 3

\* String.prototype.trim for texts whose only white space is the space.
trim(str) == Reversed(skipWhiteSpace(Reversed(skipWhiteSpace(str))))

\* What can be typed into the search bar.
Queries == {<<>>, <<" ">>, <<"a", " ">>, <<"b">>}

\* The message of line 62.
FailedToGenerate ==
    <<"F", "a", "i", "l", "e", "d", " ", "t", "o", " ", "g", "e", "n", "e",
      "r", "a", "t", "e", " ", "r", "e", "s", "e", "a", "r", "c", "h", " ",
      "p", "a", "p", "e", "r">>

\* The message of line 69 for a rejection that is not an Error.
AnErrorOccurred ==
    <<"A", "n", " ", "e", "r", "r", "o", "r", " ", "o", "c", "c", "u", "r",
      "r", "e", "d">>

FailedToFetch ==
    <<"F", "a", "i", "l", "e", "d", " ", "t", "o", " ", "f", "e", "t", "c",
      "h">>

\* What a rejected promise can carry: an Error with a message, an Error
\* with an empty message, something that is not an Error.
Reasons ==
    {[isError |-> TRUE, message |-> FailedToFetch],
     [isError |-> TRUE, message |-> <<>>],
     [isError |-> FALSE, message |-> <<>>]}

\* The bodies response.json() can deliver: null, or an object with or
\* without a paper_draft and with or without analytics.
Responses ==
    {NullData} \cup [null : {FALSE}, paper_draft : BOOLEAN, analytics : BOOLEAN]

NoReason == [isError |-> FALSE, message |-> <<>>]

\* A call of handleSearch at an await that has not settled.
Awaiting(n, what) ==
    [n |-> n, awaiting |-> what, settled |-> "no", ok |-> FALSE,
     data |-> NullData, reason |-> NoReason]

\* researchData?.field, lines 296 and 337.
has(data, field) == ~data.null /\ data[field]

\* The steps the buttons rendered in the current step lead to: lines
\* 245-246 and 277-290, 295-296 and 304-317, 336-337 and 345-352.  The step
\* indicator (lines 84-129) has no handlers.
stepButtons ==
    CASE currentStep = "results" ->
           IF researchData.null THEN {} ELSE {"paper", "analytics"}
      [] currentStep = "paper" ->
           IF has(researchData, "paper_draft") THEN {"analytics", "results"} ELSE {}
      [] currentStep = "analytics" ->
           IF has(researchData, "analytics") THEN {"paper"} ELSE {}
      [] OTHER -> {}

\* The search bar is rendered in the search step only, line 365 and 143.
searchBarShown == currentStep = "search"

homeFrame == UNCHANGED <<cardVars, citationStyle, listVars, viewVars, draftVars>>

\* onChange of the search input, SearchBar.tsx lines 76 and 79.
setQuery(q) ==
    /\ searchBarShown /\ ~loading
    /\ q # query
    /\ query' = q
    /\ UNCHANGED <<currentStep, researchData, loading, error, fetches, searches>>
    /\ homeFrame

\* handleSearch that leaves the step and the loading flag as they are.
handleSearchStayingOnSearch ==
    /\ searches < MaxSearches
    /\ searches' = searches + 1
    /\ error' = Null
    /\ fetches' = fetches \cup {Awaiting(searches', "fetch")}
    /\ UNCHANGED <<currentStep, loading, researchData, query>>

\* handleSearch up to its first await, lines 36-59: the three setters and
\* the fetch call.  The search bar is unmounted by the step change and its
\* state is dropped.
handleSearch ==
    /\ searches < MaxSearches
    /\ searches' = searches + 1
    /\ loading' = TRUE
    /\ error' = Null
    /\ currentStep' = "results"
    /\ fetches' = fetches \cup {Awaiting(searches', "fetch")}
    /\ query' = <<>>
    /\ UNCHANGED researchData

\* handleSubmit, SearchBar.tsx lines 32-37, from the submit button of line
\* 83, which is disabled while loading or while the query is blank.
handleSubmit ==
    /\ searchBarShown /\ ~loading /\ trim(query) # <<>>
    /\ handleSearch
    /\ homeFrame

\* The network settles the fetch: a response that is ok or not, or a
\* rejection.
FetchSettles(f, outcome) ==
    /\ f \in fetches /\ f.awaiting = "fetch" /\ f.settled = "no"
    /\ fetches' = (fetches \ {f}) \cup {[f EXCEPT !.settled = outcome.settled,
                                                  !.ok = outcome.ok,
                                                  !.data = outcome.data,
                                                  !.reason = outcome.reason]}
    /\ UNCHANGED <<currentStep, researchData, loading, error, searches, query>>
    /\ homeFrame

\* response.json() settles: a body, or a rejection for a body that does not
\* parse.
JsonSettles(f, outcome) ==
    /\ f \in fetches /\ f.awaiting = "json" /\ f.settled = "no"
    /\ fetches' = (fetches \ {f}) \cup {[f EXCEPT !.settled = outcome.settled,
                                                  !.ok = outcome.ok,
                                                  !.data = outcome.data,
                                                  !.reason = outcome.reason]}
    /\ UNCHANGED <<currentStep, researchData, loading, error, searches, query>>
    /\ homeFrame

FetchOutcomes ==
    [settled : {"fulfilled"}, ok : BOOLEAN, data : {NullData}, reason : {NoReason}]
        \cup [settled : {"rejected"}, ok : {FALSE}, data : {NullData}, reason : Reasons]

JsonOutcomes ==
    [settled : {"fulfilled"}, ok : {TRUE}, data : Responses, reason : {NoReason}]
        \cup [settled : {"rejected"}, ok : {TRUE}, data : {NullData}, reason : Reasons]

\* The catch that forgets to go back to the search step.
searchFailedKeepingStep(f, reason) ==
    /\ error' = IF reason.isError THEN reason.message ELSE AnErrorOccurred
    /\ loading' = FALSE
    /\ fetches' = fetches \ {f}
    /\ UNCHANGED <<currentStep, researchData>>

\* catch and finally, lines 68-73.
searchFailed(f, reason) ==
    /\ error' = IF reason.isError THEN reason.message ELSE AnErrorOccurred
    /\ currentStep' = "search"
    /\ loading' = FALSE
    /\ fetches' = fetches \ {f}
    /\ UNCHANGED researchData

\* handleSearch continues after an await that settled, lines 61-73.
handleSearchResumes(f) ==
    /\ f \in fetches /\ f.settled # "no"
    /\ CASE f.settled = "rejected" -> searchFailed(f, f.reason)
         [] f.settled = "fulfilled" /\ f.awaiting = "fetch" /\ ~f.ok ->
              searchFailed(f, [isError |-> TRUE, message |-> FailedToGenerate])
         [] f.settled = "fulfilled" /\ f.awaiting = "fetch" /\ f.ok ->
              /\ fetches' = (fetches \ {f}) \cup {Awaiting(f.n, "json")}
              /\ UNCHANGED <<currentStep, researchData, loading, error>>
         [] OTHER ->
              /\ researchData' = f.data
              /\ currentStep' = "paper"
              /\ loading' = FALSE
              /\ fetches' = fetches \ {f}
              /\ UNCHANGED error
    /\ UNCHANGED <<searches, query>>
    /\ homeFrame

\* A button of the current step, lines 279, 285, 306, 312 and 347.
setCurrentStep(step) ==
    /\ step \in stepButtons
    /\ currentStep' = step
    /\ UNCHANGED <<researchData, loading, error, fetches, searches, query>>
    /\ homeFrame

HomeSteps == {"search", "results", "paper", "analytics"}

InitHome ==
    /\ HomeInitial
    /\ ViewInitial
    /\ DraftInitial
    /\ citationStyle = "apa"
    /\ ref = <<>>
    /\ mounted = FALSE
    /\ citation = <<>>
    /\ firstShown = <<>>
    /\ restyled = FALSE
    /\ references = <<>>
    /\ searchTerm = <<>>
    /\ sortBy = "relevance"
    /\ filterYear = <<>>
    /\ showFilters = FALSE
    /\ filteredAndSortedReferences = <<>>
    /\ yearOptions = <<>>
    /\ exported = <<>>
    /\ received = <<>>

NextHome ==
    \/ \E q \in Queries : setQuery(q)
    \/ handleSubmit
    \/ \E f \in fetches : \E outcome \in FetchOutcomes : FetchSettles(f, outcome)
    \/ \E f \in fetches : \E outcome \in JsonOutcomes : JsonSettles(f, outcome)
    \/ \E f \in fetches : handleSearchResumes(f)
    \/ \E step \in HomeSteps : setCurrentStep(step)

SpecHome == InitHome /\ [][NextHome]_vars

----------------------------------------------------------------------------
(* The PaperDraft editor, SearchBar.tsx lines 234-564, rendered editable   *)
(* (Home.tsx lines 320-323).                                               *)

AbstractKey == <<"a", "b", "s", "t", "r", "a", "c", "t">>
IntroKey == <<"i", "n", "t", "r", "o">>
MethodsKey == <<"m", "e", "t", "h", "o", "d", "s">>

\* The paper prop: an abstract that may be empty and two sections, one of
\* them possibly without text.
Papers ==
    {[abstract |-> a, sections |-> (IntroKey :> <<"I">>) @@ (MethodsKey :> m)] :
        a \in {<<>>, <<"A">>}, m \in {<<>>, <<"M">>}}

\* What can be typed into the textarea.
Texts == {<<>>, <<"x">>, <<"y">>}

\* The sections rendered with edit controls: the abstract when it is not
\* empty (line 403) and every entry of paper.sections (line 472).
shownSections ==
    (IF Truthy(paper.abstract) THEN {AbstractKey} ELSE {}) \cup DOMAIN paper.sections

\* section?.content || '', lines 272-274.
contentOf(sectionKey) ==
    IF sectionKey \in DOMAIN paper.sections /\ Truthy(paper.sections[sectionKey])
    THEN paper.sections[sectionKey] ELSE <<>>

draftFrame == UNCHANGED <<cardVars, citationStyle, listVars, viewVars, homeVars>>

\* handleEdit, lines 271-275, from the Edit button of a section that is not
\* the one being edited (lines 432, 507).
handleEdit(sectionKey) ==
    /\ sectionKey \in shownSections
    /\ editingSection # sectionKey
    /\ editingSection' = sectionKey
    /\ editContent' = contentOf(sectionKey)
    /\ calls' = <<>>
    /\ typed' = FALSE
    /\ clicked' = "edit"
    /\ UNCHANGED <<paper, onEdit, onSave>>
    /\ draftFrame

\* onChange of the textarea of the section being edited, lines 454, 529.
setEditContent(text) ==
    /\ editingSection \in shownSections
    /\ text # editContent
    /\ editContent' = text
    /\ calls' = <<>>
    /\ typed' = TRUE
    /\ clicked' = "type"
    /\ UNCHANGED <<paper, onEdit, onSave, editingSection>>
    /\ draftFrame

\* handleSave, lines 277-286, from the Save button of the section being
\* edited (lines 415, 490).
handleSave ==
    /\ editingSection \in shownSections
    /\ calls' = (IF Truthy(editingSection) /\ onEdit
                 THEN <<[fn |-> "onEdit", section |-> editingSection,
                         content |-> editContent]>>
                 ELSE <<>>)
                \o (IF onSave THEN <<[fn |-> "onSave", section |-> <<>>, content |-> <<>>]>>
                    ELSE <<>>)
    /\ editingSection' = Null
    /\ editContent' = <<>>
    /\ typed' = FALSE
    /\ clicked' = "save"
    /\ UNCHANGED <<paper, onEdit, onSave>>
    /\ draftFrame

\* handleCancel, lines 288-291, from the Cancel button (lines 422, 497).
handleCancel ==
    /\ editingSection \in shownSections
    /\ editingSection' = Null
    /\ editContent' = <<>>
    /\ calls' = <<>>
    /\ typed' = FALSE
    /\ clicked' = "cancel"
    /\ UNCHANGED <<paper, onEdit, onSave>>
    /\ draftFrame

\* PaperDraft after its first render; Home passes neither onEdit nor onSave.
InitDraft ==
    /\ paper \in Papers
    /\ onEdit \in BOOLEAN
    /\ onSave \in BOOLEAN
    /\ editingSection = Null
    /\ editContent = <<>>
    /\ calls = <<>>
    /\ typed = FALSE
    /\ clicked = "none"
    /\ HomeInitial
    /\ ViewInitial
    /\ citationStyle = "apa"
    /\ ref = <<>>
    /\ mounted = FALSE
    /\ citation = <<>>
    /\ firstShown = <<>>
    /\ restyled = FALSE
    /\ references = <<>>
    /\ searchTerm = <<>>
    /\ sortBy = "relevance"
    /\ filterYear = <<>>
    /\ showFilters = FALSE
    /\ filteredAndSortedReferences = <<>>
    /\ yearOptions = <<>>
    /\ exported = <<>>
    /\ received = <<>>

NextDraft ==
    \/ \E sectionKey \in {AbstractKey, IntroKey, MethodsKey} : handleEdit(sectionKey)
    \/ \E text \in Texts : setEditContent(text)
    \/ handleSave
    \/ handleCancel

SpecDraft == InitDraft /\ [][NextDraft]_vars

----------------------------------------------------------------------------
(* Vocabulary of the properties: text predicates and the expected texts,   *)
(* written from the citation-style table rather than from the code.        *)

Contains(text, part) ==
    \E i \in 1..(Len(text) - Len(part) + 1) : SubSeq(text, i, i + Len(part) - 1) = part

StartsWith(text, part) ==
    Len(part) <= Len(text) /\ SubSeq(text, 1, Len(part)) = part

EndsWith(text, part) ==
    Len(part) <= Len(text) /\ SubSeq(text, Len(text) - Len(part) + 1, Len(text)) = part

Occurrences(text, part) ==
    Cardinality({i \in 1..(Len(text) - Len(part) + 1) :
                    SubSeq(text, i, i + Len(part) - 1) = part})

UndefinedText == <<"u", "n", "d", "e", "f", "i", "n", "e", "d">>
NullText == <<"n", "u", "l", "l">>
VolLabel == <<"v", "o", "l", ".", " ">>
NoLabel == <<"n", "o", ".", " ">>
PpLabel == <<"p", "p", ".", " ">>
DoiUrl == <<" ", "h", "t", "t", "p", "s", ":", "/", "/", "d", "o", "i", ".", "o", "r", "g", "/">>
CommaSpace == <<",", " ">>

Present(v) == v \notin Absent /\ v # <<>>

\* names[1], names[2], ..., names[n] with ", " between neighbours.
Listed(names) ==
    LET upTo[k \in 0..Len(names)] ==
            IF k = 0 THEN <<>>
            ELSE IF k = 1 THEN names[1]
            ELSE upTo[k - 1] \o CommaSpace \o names[k]
    IN  upTo[Len(names)]

FirstNames(names, n) == [i \in 1..n |-> names[i]]
LastName(names) == names[Len(names)]

\* The APA row of the table.
ApaAuthorText(names) ==
    IF Len(names) = 1 THEN names[1]
    ELSE IF Len(names) <= 7
         THEN Listed(FirstNames(names, Len(names) - 1)) \o <<",", " ", "&", " ">>
              \o LastName(names)
         ELSE Listed(FirstNames(names, 6)) \o <<",", " ", ".", ".", ".", " ">>
              \o LastName(names)

\* The IEEE row of the table.
IeeeAuthorText(names) ==
    IF Len(names) = 1 THEN names[1]
    ELSE IF Len(names) <= 6 THEN Listed(names)
    ELSE Listed(FirstNames(names, 3)) \o <<" ", "e", "t", " ", "a", "l", ".">>

\* The MLA and Chicago rows of the table.
AndAuthorText(names) ==
    IF Len(names) = 1 THEN names[1]
    ELSE Listed(FirstNames(names, Len(names) - 1)) \o <<",", " ", "a", "n", "d", " ">>
         \o LastName(names)

\* The card shows a citation of a reference with at least one author in one
\* of the four styles.
Cited == mounted /\ citationStyle \in Styles /\ Len(ref.authors) >= 1
CitedAs(style) == mounted /\ citationStyle = style /\ Len(ref.authors) >= 1

\* The reference of the worked examples.
IsExample ==
    /\ ref.authors = SmithLee
    /\ ref.title = <<"X">>
    /\ ref.journal = <<"J">>
    /\ ref.year = <<"2", "0", "2", "1">>
    /\ ref.volume = <<"5">>
    /\ ref.pages = <<"1", "-", "1", "0">>
    /\ ref.doi \in Absent

----------------------------------------------------------------------------
(* Properties of formatCitation.                                           *)

\* C1: in every style, for a reference with at least one author, the
\* formatted citation contains neither "undefined" nor "null", whichever
\* optional fields are absent.  (Violated: Chicago renders an absent issue.)
C1_NoUndefinedOrNull ==
    Cited => ~Contains(citation, UndefinedText) /\ ~Contains(citation, NullText)

\* C2: an absent optional field leaves no label of its own in the citation
\* ("vol. ", "no. ", "pp. "), and a citation of a reference without journal
\* does not end with a separator or a space.  (Violated: Chicago's "no. "
\* without an issue; the trailing space after the title in every style.)
C2_NoStrayPunctuation ==
    Cited =>
        /\ ~Present(ref.volume) => ~Contains(citation, VolLabel)
        /\ ~Present(ref.issue) => ~Contains(citation, NoLabel)
        /\ ~Present(ref.pages) => ~Contains(citation, PpLabel)
        /\ ~Present(ref.journal) => citation[Len(citation)] \notin {" ", ",", ";", ":"}

\* C3: in APA style a reference with journal, volume and pages is rendered
\* as '<authors> (<year>). <title>. <journal>, <volume>, <pages>', followed
\* by ' https://doi.org/<doi>' when it has a DOI; the worked example gives
\* 'A Smith, & B Lee (2021). X. J, 5, 1-10'.
ApaExampleText ==
    <<"A", " ", "S", "m", "i", "t", "h", ",", " ", "&", " ", "B", " ", "L", "e", "e", " ",
      "(", "2", "0", "2", "1", ")", ".", " ", "X", ".", " ", "J", ",", " ", "5", ",", " ",
      "1", "-", "1", "0">>

C3_ApaAssembly ==
    (CitedAs("apa") /\ Present(ref.journal) /\ Present(ref.volume) /\ Present(ref.pages)) =>
        /\ citation = ApaAuthorText(ref.authors) \o <<" ", "(">> \o ref.year
                      \o <<")", ".", " ">> \o ref.title \o <<".", " ">> \o ref.journal
                      \o CommaSpace \o ref.volume \o CommaSpace \o ref.pages
                      \o (IF Present(ref.doi) THEN DoiUrl \o ref.doi ELSE <<>>)
        /\ IsExample => citation = ApaExampleText

C3_ApaExampleShown ==
    mounted /\ citationStyle = "apa" /\ IsExample /\ citation = ApaExampleText

\* C4: in IEEE style a reference with journal, volume and pages is rendered
\* as '<authors>, "<title>," <journal>, vol. <volume>, pp. <pages>, <year>';
\* the worked example gives 'A Smith, B Lee, "X," J, vol. 5, pp. 1-10, 2021'.
IeeeExampleText ==
    <<"A", " ", "S", "m", "i", "t", "h", ",", " ", "B", " ", "L", "e", "e", ",", " ",
      "\"", "X", ",", "\"", " ", "J", ",", " ", "v", "o", "l", ".", " ", "5", ",", " ",
      "p", "p", ".", " ", "1", "-", "1", "0", ",", " ", "2", "0", "2", "1">>

C4_IeeeAssembly ==
    (CitedAs("ieee") /\ Present(ref.journal) /\ Present(ref.volume) /\ Present(ref.pages)) =>
        /\ citation = IeeeAuthorText(ref.authors) \o <<",", " ", "\"">> \o ref.title
                      \o <<",", "\"", " ">> \o ref.journal \o CommaSpace \o VolLabel
                      \o ref.volume \o CommaSpace \o PpLabel \o ref.pages
                      \o CommaSpace \o ref.year
        /\ IsExample => citation = IeeeExampleText

C4_IeeeExampleShown ==
    mounted /\ citationStyle = "ieee" /\ IsExample /\ citation = IeeeExampleText

\* C5: in IEEE style the citation of every reference with at least one
\* author ends with ', <year>', also when the journal is empty or the pages
\* are absent.  (Violated: the year is appended only inside the journal
\* branch.)
C5_IeeeYearAlways ==
    CitedAs("ieee") => EndsWith(citation, CommaSpace \o ref.year)

\* C6: in Chicago style the segment 'no. <issue>' is emitted exactly when the
\* reference has an issue, a present issue is rendered, and a present DOI is
\* appended as ' https://doi.org/<doi>'.  (Violated: the segment is guarded by
\* the pages, not by the issue.)
C6_ChicagoIssue ==
    CitedAs("chicago") =>
        /\ Contains(citation, NoLabel) <=> Present(ref.issue)
        /\ Present(ref.issue) => Contains(citation, NoLabel \o ref.issue)
        /\ Present(ref.doi) => EndsWith(citation, DoiUrl \o ref.doi)

\* C7: the APA author list is the single name for 1 author; for 2 to 7
\* authors all but the last joined by ', ', then ', & ' and the last; for
\* more than 7 the first 6 joined by ', ', then ', ... ' and the last; in
\* input order.
C7_ApaAuthors ==
    CitedAs("apa") => StartsWith(citation, ApaAuthorText(ref.authors) \o <<" ", "(">>)

C7_EightAuthorsShown ==
    /\ mounted /\ citationStyle = "apa"
    /\ ref.authors = AuthorsUpTo(8)
    /\ StartsWith(citation,
           <<"A", "o", ",", " ", "B", "o", ",", " ", "C", "o", ",", " ", "D", "o", ",", " ",
             "E", "o", ",", " ", "F", "o", ",", " ", ".", ".", ".", " ", "H", "o", " ", "(">>)

\* C8: the IEEE author list is the single name for 1 author; for 2 to 6
\* authors all joined by ', '; for more than 6 the first 3 joined by ', '
\* followed by ' et al.', and no later author appears in the citation.
C8_IeeeAuthors ==
    CitedAs("ieee") =>
        /\ StartsWith(citation, IeeeAuthorText(ref.authors) \o <<",", " ", "\"">>)
        /\ Len(ref.authors) > 6 =>
               \A i \in 4..Len(ref.authors) : ~Contains(citation, ref.authors[i])

C8_SevenAuthorsShown ==
    /\ mounted /\ citationStyle = "ieee"
    /\ ref.authors = AuthorsUpTo(7)
    /\ StartsWith(citation,
           <<"A", "o", ",", " ", "B", "o", ",", " ", "C", "o", " ", "e", "t", " ", "a", "l",
             ".", ",", " ", "\"">>)

\* C9: the MLA and Chicago author lists are the single name for 1 author and,
\* for any larger number, all but the last joined by ', ', then ', and ' and
\* the last: every author appears exactly once, in input order.
C9_AndAuthors ==
    (mounted /\ citationStyle \in {"mla", "chicago"} /\ Len(ref.authors) >= 1) =>
        /\ StartsWith(citation, AndAuthorText(ref.authors) \o <<".", " ", "\"">>)
        /\ \A i \in 1..Len(ref.authors) : Occurrences(citation, ref.authors[i]) = 1

C9_EightAuthorsShown ==
    /\ mounted /\ citationStyle = "mla"
    /\ ref.authors = Reversed(AuthorsUpTo(8))
    /\ StartsWith(citation,
           <<"H", "o", ",", " ", "G", "o", ",", " ", "F", "o", ",", " ", "E", "o", ",", " ",
             "D", "o", ",", " ", "C", "o", ",", " ", "B", "o", ",", " ", "a", "n", "d", " ",
             "A", "o", ".", " ", "\"">>)

\* C10: in MLA style the title follows the authors in double quotes, a
\* present volume is rendered as ', vol. <volume>', present pages close the
\* citation as ', <year>, pp. <pages>', and without pages the year alone
\* closes it as ', <year>'.  (Violated: volume, year and pages are appended
\* only inside the journal branch.)
C10_MlaAssembly ==
    CitedAs("mla") =>
        /\ StartsWith(citation, AndAuthorText(ref.authors) \o <<".", " ", "\"">>
                                \o ref.title \o <<".", "\"">>)
        /\ Present(ref.volume) => Contains(citation, CommaSpace \o VolLabel \o ref.volume)
        /\ Present(ref.pages) =>
               EndsWith(citation, CommaSpace \o ref.year \o CommaSpace \o PpLabel \o ref.pages)
        /\ ~Present(ref.pages) => EndsWith(citation, CommaSpace \o ref.year)

\* C11: a style outside {apa, mla, chicago, ieee} is formatted as
\* '<authors joined by ", "> (<year>). <title>. <journal>'; the formatter is
\* total, so the card always shows a text.
DefaultExampleText ==
    <<"A", " ", "S", "m", "i", "t", "h", ",", " ", "B", " ", "L", "e", "e", " ",
      "(", "2", "0", "2", "1", ")", ".", " ", "X", ".", " ", "J">>

C11_DefaultFormat ==
    (mounted /\ citationStyle \notin Styles) =>
        /\ citation = Listed(ref.authors) \o <<" ", "(">> \o ref.year \o <<")", ".", " ">>
                      \o ref.title \o <<".", " ">> \o ref.journal
        /\ IsExample => citation = DefaultExampleText

C11_DefaultExampleShown ==
    mounted /\ citationStyle = "harvard" /\ IsExample /\ citation = DefaultExampleText

----------------------------------------------------------------------------
(* Properties of the query pipeline and of getYearRange.                   *)

Elements(list) == {list[i] : i \in 1..Len(list)}
Copies(list, r) == Cardinality({i \in 1..Len(list) : list[i] = r})
PositionIn(list, r) == CHOOSE i \in 1..Len(list) : list[i] = r
Shown == filteredAndSortedReferences

\* C13: a reference is displayed iff it is in the list received and (the
\* search term is empty or its lower case is part of the lower-cased title,
\* of some lower-cased author or of the lower-cased journal) and (the year
\* filter is empty or equals the reference's year string).
C13_FilterStage ==
    \A r \in Bibliography :
        r \in Elements(Shown) <=>
            /\ r \in Elements(references)
            /\ \/ searchTerm = <<>>
               \/ Contains(toLowerCase(r.title), toLowerCase(searchTerm))
               \/ \E a \in Elements(r.authors) :
                      Contains(toLowerCase(a), toLowerCase(searchTerm))
               \/ Contains(toLowerCase(r.journal), toLowerCase(searchTerm))
            /\ filterYear = <<>> \/ r.year = filterYear

\* The term "k" is found in a journal only, the year "2021" is selected.
C13_JournalAndYearMatch ==
    /\ searchTerm = <<"k">> /\ filterYear = <<"2", "0", "2", "1">>
    /\ Len(references) = 3
    /\ Len(Shown) = 1 /\ Shown[1].journal = <<"K">>

\* C14: with an empty search term and an empty year filter the displayed
\* list is a rearrangement of the input for every sort key: same length,
\* every reference exactly as often as in the input.
C14_AllReturned ==
    (searchTerm = <<>> /\ filterYear = <<>>) =>
        /\ Len(Shown) = Len(references)
        /\ \A r \in Bibliography : Copies(Shown, r) = Copies(references, r)

C14_ReorderedAll ==
    /\ searchTerm = <<>> /\ filterYear = <<>> /\ sortBy = "citations"
    /\ Len(references) = 3 /\ Len(Shown) = 3 /\ Shown # references

\* C15: a search term that differs from the current one only in letter case
\* gives the same output: the displayed list is what the query returns for
\* every such term (with the sort order left to the engine where the
\* comparator is not consistent, the same set of possible orders).
CaseVariants(term) ==
    {v \in [1..Len(term) -> UNION {{term[i], lowerChar(term[i]),
                                    UpperLetters[IndexIn(LowerLetters, lowerChar(term[i]))]} :
                                   i \in 1..Len(term)}] :
        \A i \in 1..Len(term) : lowerChar(v[i]) = lowerChar(term[i])}

C15_CaseInsensitive ==
    \A other \in CaseVariants(searchTerm) :
        /\ filterReferences(references, other, filterYear)
               = filterReferences(references, searchTerm, filterYear)
        /\ \E res \in recompute(references, other, sortBy, filterYear) : res.output = Shown

C15_UpperCaseTermMatches ==
    /\ searchTerm = <<"M", "L">>
    /\ Len(Shown) = 2
    /\ {Shown[1].title, Shown[2].title} = {<<"M", "l">>, <<"m", "l">>}

\* C16: neighbours of the displayed list are in order: citations_count
\* descending under 'citations', relevance_score descending under
\* 'relevance', titles ascending in the collation under 'alphabetical'.
C16_SortedByKey ==
    \A i \in 1..(Len(Shown) - 1) :
        /\ sortBy = "citations" => Shown[i].citations_count >= Shown[i + 1].citations_count
        /\ sortBy = "relevance" => Shown[i].relevance_score >= Shown[i + 1].relevance_score
        /\ sortBy = "alphabetical" => localeCompare(Shown[i].title, Shown[i + 1].title) <= 0

C16_SortedThree ==
    /\ sortBy = "citations" /\ Len(Shown) = 3 /\ Shown # references
    /\ Shown[1].citations_count = 10 /\ Shown[3].citations_count = 0

\* C17: under 'year' the references whose year parses are displayed in
\* descending order of the parsed year and every reference whose year does
\* not parse comes after all of them.  (Violated: a difference with NaN is
\* read as "equal", so such a reference stays where the input had it.)
C17_UnparseableYearsLast ==
    sortBy = "year" =>
        \A i \in 1..Len(Shown) : \A j \in 1..Len(Shown) :
            i < j =>
                /\ ~(isNaN(parseInt(Shown[i].year)) /\ ~isNaN(parseInt(Shown[j].year)))
                /\ (~isNaN(parseInt(Shown[i].year)) /\ ~isNaN(parseInt(Shown[j].year)))
                       => parseInt(Shown[i].year).val >= parseInt(Shown[j].year).val

\* C18: for every sort key, two displayed references whose keys compare
\* equal are in the relative order of the input list.  (Violated under
\* 'year' when a year does not parse: the comparator is then not consistent
\* and the order is the engine's.)
C18_StableSort ==
    \A i \in 1..Len(Shown) : \A j \in 1..Len(Shown) :
        (i < j /\ sortOrder(Shown[i], Shown[j], sortBy) = 0)
            => PositionIn(references, Shown[i]) < PositionIn(references, Shown[j])

\* C19: the year selector is rendered from getYearRange: every integer from
\* the least to the greatest parsed year, once each (offered in reverse),
\* years that do not parse ignored; nothing when no year parses.
ParsedYears == {parseInt(r.year).val : r \in {x \in Elements(references) : ~isNaN(parseInt(x.year))}}

C19_YearRange ==
    showFilters =>
        IF ParsedYears = {} THEN yearOptions = <<>>
        ELSE LET least == CHOOSE y \in ParsedYears : \A z \in ParsedYears : y <= z
                 greatest == CHOOSE y \in ParsedYears : \A z \in ParsedYears : y >= z
             IN  /\ Len(yearOptions) = greatest - least + 1
                 /\ \A i \in 1..Len(yearOptions) :
                        yearOptions[i] = numberToString(greatest - (i - 1))
                 /\ getYearRange(references)
                        = [i \in 1..(greatest - least + 1) |-> least + (i - 1)]

C19_GapFilled ==
    /\ showFilters
    /\ Len(references) = 3
    /\ {references[i].year : i \in 1..3}
           = {<<"2", "0", "1", "9">>, <<"2", "0", "2", "1">>, <<"n", ".", "d", ".">>}
    /\ yearOptions = << <<"2", "0", "2", "1">>, <<"2", "0", "2", "0">>, <<"2", "0", "1", "9">> >>

\* C20: the references array is never changed by the view: after any
\* sequence of recomputations of the list, renders of the year selector,
\* copy-all and download it is the array the parent passed, element for
\* element.
C20_InputNotMutated == references = received

C20_SortedCopyExported ==
    /\ Len(references) = 3 /\ Len(Shown) = 3 /\ Shown # references
    /\ showFilters /\ Len(yearOptions) = 3
    /\ exported # <<>> /\ exported.kind = "file"
    /\ references = received

----------------------------------------------------------------------------
(* Properties of the References view.                                      *)

QueryInputs == <<references, searchTerm, sortBy, filterYear>>

\* C21: after every event the displayed list is the query applied to the
\* current references, search term, sort key and year filter, and an event
\* that changes none of the four leaves the displayed list as it is.
C21_NoStaleView ==
    /\ \E res \in recompute(references, searchTerm, sortBy, filterYear) : res.output = Shown
    /\ [][/\ \E res \in recompute(references', searchTerm', sortBy', filterYear') :
                 res.output = filteredAndSortedReferences'
          /\ UNCHANGED QueryInputs => UNCHANGED filteredAndSortedReferences]_vars

\* Searched, sorted, hovered, collapsed and copied: two of three shown.
C21_AfterEveryKindOfEvent ==
    /\ searchTerm = <<"m", "l">> /\ sortBy = "alphabetical"
    /\ hoveredRef # Null /\ "bibliography" \notin expandedSections
    /\ copiedRef = AllRefs
    /\ Len(references) = 3 /\ Len(Shown) = 2
    /\ Shown[1].title = <<"m", "l">> /\ Shown[2].title = <<"M", "l">>

BlankLine == <<"\n", "\n">>

RECURSIVE ExportText(_, _)
ExportText(list, style) ==
    IF list = <<>> THEN <<>>
    ELSE IF Len(list) = 1 THEN formatCitation(list[1], style)
    ELSE formatCitation(list[1], style) \o BlankLine \o ExportText(Tail(list), style)

ExportName(style) ==
    CASE style = "apa" ->
           <<"r", "e", "f", "e", "r", "e", "n", "c", "e", "s", "_", "a", "p", "a",
             ".", "t", "x", "t">>
      [] style = "mla" ->
           <<"r", "e", "f", "e", "r", "e", "n", "c", "e", "s", "_", "m", "l", "a",
             ".", "t", "x", "t">>
      [] style = "chicago" ->
           <<"r", "e", "f", "e", "r", "e", "n", "c", "e", "s", "_", "c", "h", "i", "c",
             "a", "g", "o", ".", "t", "x", "t">>
      [] style = "ieee" ->
           <<"r", "e", "f", "e", "r", "e", "n", "c", "e", "s", "_", "i", "e", "e", "e",
             ".", "t", "x", "t">>

\* The write started by the last event, when that event was copy-all.
CopyAllStarted ==
    /\ exported # <<>> /\ exported.kind = "clipboard"
    /\ \E w \in writes : w.n = copies /\ w.by = "copyAllCitations"

\* C22: the file of Download is named references_<style>.txt and holds the
\* citations of the displayed references in the current style, in displayed
\* order, with a blank line between them; copy-all writes the same text to
\* the clipboard.
C22_Export ==
    /\ (exported # <<>> /\ exported.kind = "file") =>
           /\ exported.name = ExportName(citationStyle)
           /\ exported.text = ExportText(Shown, citationStyle)
    /\ CopyAllStarted => exported.text = ExportText(Shown, citationStyle)

C22_TwoCitationsDownloaded ==
    /\ exported # <<>> /\ exported.kind = "file"
    /\ citationStyle = "ieee" /\ searchTerm = <<"m", "l">> /\ sortBy = "alphabetical"
    /\ Len(Shown) = 2 /\ Len(references) = 3
    /\ Occurrences(exported.text, BlankLine) = 1
    /\ StartsWith(exported.text, formatCitation(Shown[1], "ieee"))
    /\ EndsWith(exported.text, formatCitation(Shown[2], "ieee"))

\* The last event was the catch of a rejected clipboard write.
Rejected(x) == x # <<>> /\ x.kind = "console"

\* C24: a rejected clipboard write is caught and logged, and it changes
\* neither the copied indicator, nor the search term, sort key and year
\* filter, nor the expanded sections, nor the displayed list, and it
\* schedules no timer.
C24_RejectionChangesNothing ==
    [][Rejected(exported') =>
          /\ exported'.text \in {FailedToCopyText, FailedToCopyCitations}
          /\ UNCHANGED <<copiedRef, searchTerm, sortBy, filterYear, expandedSections,
                         filteredAndSortedReferences, timers>>]_vars

\* A write is rejected while the indicator of an earlier copy is shown.
C24_RejectedWhileIndicatorShown ==
    /\ Rejected(exported)
    /\ copiedRef = AllRefs /\ Len(timers) = 1 /\ writes = {}
    /\ "bibliography" \notin expandedSections /\ sortBy = "alphabetical"

\* C25: the copied indicator is cleared only by the timer of the copy that
\* set it: a timer that fires while the indicator of a later copy is shown
\* leaves it shown.  (Violated: every timer calls setCopiedRef(null).)
C25_OwnTimerClears ==
    [][(timers # <<>> /\ timers' = Tail(timers) /\ copiedRef # Null /\ copiedRef' = Null)
          => copiedBy = Head(timers)]_vars

----------------------------------------------------------------------------
(* Properties of the Home page.                                            *)

\* The fetch of this call was rejected or answered with a response that is
\* not ok.
FetchFailed(f) ==
    f.awaiting = "fetch" /\ (f.settled = "rejected" \/ (f.settled = "fulfilled" /\ ~f.ok))

\* C23: when handleSearch continues after a fetch that was rejected or not
\* ok, the error message is set, the step is 'search', loading is false and
\* researchData is as before; starting a search clears the error.
C23_FetchFailure ==
    [][/\ \A f \in fetches :
              (FetchFailed(f) /\ f \notin fetches') =>
                  /\ error' # Null
                  /\ currentStep' = "search"
                  /\ ~loading'
                  /\ researchData' = researchData
       /\ searches' # searches => error' = Null]_vars

\* The second search failed with a response that was not ok.
C23_ErrorShown ==
    /\ error = FailedToGenerate /\ currentStep = "search" /\ ~loading
    /\ fetches = {} /\ searches = 2 /\ researchData = NullData

\* C26: at most one call of handleSearch waits for the backend, and it is
\* the latest search, shown as loading in the results step.
C26_OneFetchInFlight ==
    /\ Cardinality(fetches) <= 1
    /\ \A f \in fetches : f.n = searches /\ loading /\ currentStep = "results"

\* A second search, started after the first failed, waits for its body.
C26_SecondSearchInFlight ==
    /\ searches = 2
    /\ \E f \in fetches : f.n = 2 /\ f.awaiting = "json" /\ f.settled = "no"
    /\ error = Null

\* C27: the paper and analytics steps have researchData, the results step
\* is loading or has researchData, loading happens in the results step
\* only, an error is shown in the search step only.  (Violated: a body of
\* null is stored and the step becomes 'paper'.)
C27_StepData ==
    /\ currentStep \in {"paper", "analytics"} => ~researchData.null
    /\ currentStep = "results" => (loading \/ ~researchData.null)
    /\ loading => currentStep = "results"
    /\ error # Null => currentStep = "search"

\* C28: while no fetch is in flight the page offers a way on: the search
\* bar or a button that changes the step.  (Violated: the paper step renders
\* nothing for a body without paper_draft.)
C28_NoDeadEnd ==
    fetches = {} => (searchBarShown \/ stepButtons # {})

----------------------------------------------------------------------------
(* Properties of the PaperDraft editor.                                    *)

OnEditCall == [fn |-> "onEdit", section |-> editingSection, content |-> editContent]
OnSaveCall == [fn |-> "onSave", section |-> <<>>, content |-> <<>>]

\* C29: at most one rendered section is in edit mode; Save calls onEdit once
\* with the key being edited and the buffer, then onSave, and leaves no
\* section edited and an empty buffer; Cancel leaves the same state without
\* a call.  (Violated: without the onEdit prop, as Home renders the editor,
\* Save calls nothing and the buffer is dropped.)
C29_EditSession ==
    /\ Cardinality({k \in shownSections : editingSection = k}) <= 1
    /\ [][/\ clicked' = "save" =>
                 /\ calls' = <<OnEditCall, OnSaveCall>>
                 /\ editingSection' = Null /\ editContent' = <<>>
          /\ clicked' = "cancel" =>
                 /\ calls' = <<>>
                 /\ editingSection' = Null /\ editContent' = <<>>]_vars

\* C30: typed text leaves the buffer only by a Save that hands it to onEdit
\* or by Cancel.  (Violated: Edit on another section overwrites the buffer.)
C30_UnsavedEditsKept ==
    [][(typed /\ ~typed') =>
          \/ clicked' = "cancel"
          \/ clicked' = "save" /\ \E i \in 1..Len(calls') : calls'[i] = OnEditCall]_vars

====
